---- MODULE Spec2Model ----
(***************************************************************************)
(* A model of the YouTube comment scraper (src/youtube_comment_scraper.py, *)
(* src/config.py): the adaptive scroll controller, the extraction pipeline,*)
(* the video filter and the run orchestrator.                              *)
(*                                                                         *)
(* The browser is the environment.  Every query of the page returns a      *)
(* value chosen nondeterministically (the rendered comment count may grow, *)
(* stay or shrink between two queries), and every driver call may raise a  *)
(* WebDriverException.  Sleeps and log lines are not modelled.             *)
(***************************************************************************)
EXTENDS Integers, Sequences, FiniteSets, TLC

(***************************************************************************)
(* Bounds of the model.                                                    *)
(***************************************************************************)
\* largest patience limit (config.MAX_NO_NEW_COMMENTS) a controller run is given
MaxPatience == 2
\* how far above the patience limit the outer bound (config.MAX_SCROLL_ATTEMPTS) ranges
MaxExtraAttempts == 1
\* largest small comment count the page reports
MaxLoaded == 2
\* most comment nodes of one batch
MaxNodes == 3
\* most videos of a table the filter is given
MaxVideos == 3
\* most videos of the table of a whole run
MaxRunVideos == 3
\* the outer bound of the controller in a whole run
MaxRunAttempts == 1
\* longest text _parse_count is given
MaxTextLen == 4
\* largest patience limit of a controller run that may reach the
\* related-videos probe
MaxProbePatience == 16

(***************************************************************************)
(* Program constants of the controller.                                    *)
(***************************************************************************)
\* line 210: the recovery strategy is only tried below this count
LOW_COMMENT_COUNT == 50
\* line 332: stalls after which the related-videos probe is made
RELATED_PROBE_STALLS == 15
\* line 332: the probe is only made below this count
RELATED_PROBE_MAX_COUNT == 100
\* line 344: range(3), the last-resort attempts of _try_final_scroll
FINAL_SCROLL_ATTEMPTS == 3
\* line 376: more related videos than this count as the related section
RELATED_VIDEOS_MANY == 15
\* line 481: a Python float is a double, with a significand of 53 bits
MANTISSA_BITS == 53
\* line 476: the multipliers 1000 and 1000000, as their numbers of zeros
THOUSAND_ZEROS == 3
MILLION_ZEROS == 6

(***************************************************************************)
(* The values config.py ships.                                             *)
(***************************************************************************)
SHIPPED_MAX_NO_NEW_COMMENTS == 1
SHIPPED_MIN_COMMENTS == 10
SHIPPED_MIN_LIKES == 0
SHIPPED_MIN_VIEWS == 500

VARIABLES
  \* config.py, read-only after import
  MAX_SCROLL_ATTEMPTS,      \* config.MAX_SCROLL_ATTEMPTS, the outer bound B
  MAX_NO_NEW_COMMENTS,      \* config.MAX_NO_NEW_COMMENTS, the patience limit P
  MIN_COMMENTS, MIN_LIKES, MIN_VIEWS,   \* config.py lines 55-57
  MAX_COMMENTS, MAX_LIKES, MAX_VIEWS,   \* config.py lines 58-60
  config_status,            \* how `import config` (validate_config) ended
  \* process_videos
  run_pc,                   \* where process_videos is
  df,                       \* the input table read at line 769
  df_filtered,              \* the filtered table (line 773)
  df_refiltered,            \* the filter applied to its own output
  idx,                      \* the row of df_filtered the loop is at (line 782)
  driver,                   \* self.driver: "None", "open" or "quit"
  all_comments,             \* self.all_comments
  processed_videos,         \* self.processed_videos
  failed_videos,            \* self.failed_videos
  progress,                 \* progress.json: <<>> or <<the snapshot>>
  output,                   \* the CSV of save_results: <<>> or <<the records>>
  navigated,                \* history: the URLs driver.get was called with
  filter_calls,             \* history: calls of apply_video_filters
  quit_calls,               \* history: calls of driver.quit
  \* smart_infinite_scroll / _perform_smart_scroll, one run for one video
  ctl_pc,                   \* where the controller is
  last_comment_count,       \* local of _perform_smart_scroll
  scroll_attempts,          \* local of _perform_smart_scroll
  no_new_comments_count,    \* local of _perform_smart_scroll
  current_count,            \* local of _perform_smart_scroll (line 195)
  attempt,                  \* loop variable of _try_final_scroll
  final_count,              \* local of _try_final_scroll (line 353)
  comment_count,            \* local of smart_infinite_scroll (line 135)
  scroll_result,            \* what smart_infinite_scroll returned
  \* history of the run, not program state
  loop_advance_steps,       \* _youtube_specific_scroll calls made at line 184
  final_advance_steps,      \* _youtube_specific_scroll calls made at line 348
  extra_patient_calls,      \* _extra_patient_scroll calls
  probe_calls,              \* _detect_related_videos_section calls
  max_observed,             \* largest count any query returned
  count_queries,            \* _get_current_comments calls of the controller
  streak_extra_calls,       \* _extra_patient_scroll calls since the stall
                            \* count was last set to 0
  probe_saw,                \* <<>>, or <<what the last related-videos probe
                            \* found on the page>>
  raised_in,                \* the step of the controller whose exception
                            \* left its function: "none", "section_wait",
                            \* "section_scroll", "count_query", "advance_step"
  started,                  \* videos the loop of process_videos has started
  interrupted_at,           \* <<>>, or <<started>> as it was when the first
                            \* KeyboardInterrupt arrived
  interrupted_video,        \* <<>>, or <<[url, in_flight]>>: the video in
                            \* flight when the handler of line 801 ran and
                            \* the number of records extracted for it
  unavailable,              \* URLs check_video_availability returned False for
  save_calls,               \* calls of save_results
  setup_succeeded,          \* setup_chrome_driver returned True
  checkpoint_failed,        \* the last save_progress raised
  \* scrape_video_comments / _process_comment_elements, for one video
  row,                      \* the video's row of the input table (video_data)
  comment_elements,         \* what _get_current_comments returned at line 544
  video_comments,           \* the records extracted for the video
  extract_pc,               \* "idle", "ready" (nodes read) or "done"
  \* _parse_count, one call
  count_text,               \* the argument, a sequence of characters
  parsed,                   \* the int returned, in decimal
  parse_pc                  \* "idle", "called" or "returned"

cfgVars == <<MAX_SCROLL_ATTEMPTS, MAX_NO_NEW_COMMENTS, MIN_COMMENTS, MIN_LIKES,
             MIN_VIEWS, MAX_COMMENTS, MAX_LIKES, MAX_VIEWS>>
fltVars == <<config_status, run_pc, df, df_filtered, df_refiltered>>
orchVars == <<idx, driver, all_comments, processed_videos, failed_videos,
              progress, output, navigated, filter_calls, quit_calls>>
runVars == <<fltVars, orchVars>>
ctlVars == <<ctl_pc, last_comment_count, scroll_attempts, no_new_comments_count,
             current_count, attempt, final_count, comment_count, scroll_result>>
histVars == <<loop_advance_steps, final_advance_steps, extra_patient_calls,
              probe_calls, max_observed>>
extVars == <<row, comment_elements, video_comments, extract_pc>>
ctlObsVars == <<count_queries, streak_extra_calls, probe_saw, raised_in>>
runObsVars == <<started, interrupted_at, interrupted_video, unavailable,
                save_calls, setup_succeeded, checkpoint_failed>>
parseVars == <<count_text, parsed, parse_pc>>
vars == <<cfgVars, ctlVars, histVars, extVars, runVars, ctlObsVars, runObsVars,
          parseVars>>

(***************************************************************************)
(* The page, as the controller sees it.                                    *)
(***************************************************************************)
WebDriverError == "WebDriverException"
\* len(self._get_current_comments()) in a controller run on its own: small
\* counts and the two thresholds
CountValues == (0..MaxLoaded) \cup {LOW_COMMENT_COUNT, RELATED_PROBE_MAX_COUNT}
\* a driver call returns, or raises a WebDriverException
DriverCall == {"returns", WebDriverError}
\* _youtube_specific_scroll: True, False after the fallback scroll, or the
\* fallback scroll itself raised
AdvanceOutcomes == {"scrolled", "fallback", WebDriverError}

Max2(a, b) == IF a >= b THEN a ELSE b

(***************************************************************************)
(* Pure helpers of the controller.                                         *)
(***************************************************************************)
\* a changed count taken for a grown one
has_new_comments_on_change(current, last_count) == current # last_count

\* _has_new_comments
has_new_comments(current, last_count) == current > last_count

\* the loop bound tested with <=
loop_continues_inclusive(attempts, bound) == attempts <= bound

\* the while condition of _perform_smart_scroll
loop_continues(attempts, bound) == attempts < bound

\* one last-resort attempt too many
final_attempts_left_inclusive(done) == done <= FINAL_SCROLL_ATTEMPTS

\* the for loop of _try_final_scroll: is there an attempt after `done` attempts
final_attempts_left(done) == done < FINAL_SCROLL_ATTEMPTS

\* line 210: the recovery strategy's condition
wants_extra_patient_scroll(no_new_count, last_count, patience) ==
  no_new_count >= patience \div 2 /\ last_count < LOW_COMMENT_COUNT

\* the patience taken for exhausted one stall early
patience_exhausted_early(no_new_count, patience) == no_new_count >= patience - 1

\* line 324 of _should_stop_scrolling
patience_exhausted(no_new_count, patience) == no_new_count >= patience

\* the probe made one stall early
wants_related_probe_early(no_new_count, last_count) ==
  no_new_count >= RELATED_PROBE_STALLS - 1 /\ last_count < RELATED_PROBE_MAX_COUNT

\* line 332 of _should_stop_scrolling
wants_related_probe(no_new_count, last_count) ==
  no_new_count >= RELATED_PROBE_STALLS /\ last_count < RELATED_PROBE_MAX_COUNT

\* _detect_related_videos_section, from what the three queries return
detect_related_videos_section(n_related, comments_area, continuation_items) ==
  IF n_related > RELATED_VIDEOS_MANY
  THEN ~(comments_area \/ continuation_items)
  ELSE FALSE

\* lines 333-335 and 214-216: a probe that fired makes _should_stop_scrolling
\* return True and the loop break, to the return of line 218
after_probe_fired == "exit"

(***************************************************************************)
(* KeyboardInterrupt.  The interrupts followed are those that arrive while *)
(* process_videos is in its loop over the videos (lines 782-806); a        *)
(* controller run or an extraction on its own has no user at the keyboard. *)
(***************************************************************************)
InVideoLoop ==
  run_pc \in {"loop", "availability", "scroll", "elements", "extract",
              "accumulate", "checkpoint"}

\* whether a KeyboardInterrupt arrives during a step
InterruptArrives == IF InVideoLoop THEN BOOLEAN ELSE {FALSE}

\* interrupted_at after a step during which an interrupt arrived or not
first_interrupt(arrives) ==
  IF arrives /\ interrupted_at = <<>> THEN <<started>> ELSE interrupted_at

runObsButInterrupt == <<started, interrupted_video, unavailable, save_calls,
                        setup_succeeded, checkpoint_failed>>

(***************************************************************************)
(* The controller, step by step.                                           *)
(***************************************************************************)
\* an exception reaches smart_infinite_scroll's handler: return False
ScrollAborts ==
  /\ ctl_pc' = "returned"
  /\ scroll_result' = "False"
  /\ UNCHANGED <<last_comment_count, scroll_attempts, no_new_comments_count,
                 current_count, attempt, final_count, comment_count>>

\* a timeout passed for the comment region
comments_section_found_unless_error(outcome) == outcome # WebDriverError

\* _scroll_to_comments_section returns True: no scroll raised and the wait
\* of lines 155-157 found #comments
comments_section_found(outcome) == outcome = "found"

\* _scroll_to_comments_section, and smart_infinite_scroll's use of it
scroll_to_comments_section ==
  /\ ctl_pc = "section"
  /\ \E outcome \in {"found", "TimeoutException", WebDriverError} :
       /\ raised_in' = CASE outcome = "TimeoutException" -> "section_wait"
                         [] outcome = WebDriverError -> "section_scroll"
                         [] OTHER -> raised_in
       /\ IF comments_section_found(outcome)
          THEN /\ ctl_pc' = "initial"
               /\ UNCHANGED <<last_comment_count, scroll_attempts,
                              no_new_comments_count, current_count, attempt,
                              final_count, comment_count, scroll_result>>
          ELSE ScrollAborts
  /\ UNCHANGED <<extVars, runVars>>
  /\ UNCHANGED <<parseVars, cfgVars, histVars, count_queries,
                 streak_extra_calls, probe_saw, runObsVars>>

\* _perform_smart_scroll, lines 171-178
perform_smart_scroll_start(Counts) ==
  /\ ctl_pc = "initial"
  /\ count_queries' = count_queries + 1
  /\ \E call \in DriverCall, r \in Counts :
       IF call = WebDriverError
       THEN /\ ScrollAborts
            /\ raised_in' = "count_query"
            /\ UNCHANGED <<max_observed, streak_extra_calls, probe_saw>>
       ELSE /\ last_comment_count' = r
            /\ streak_extra_calls' = 0
            /\ probe_saw' = <<>>
            /\ scroll_attempts' = 0
            /\ no_new_comments_count' = 0
            /\ ctl_pc' = "loop"
            /\ max_observed' = Max2(max_observed, r)
            /\ UNCHANGED <<current_count, attempt, final_count,
                           comment_count, scroll_result, raised_in>>
  /\ UNCHANGED <<extVars, runVars>>
  /\ UNCHANGED <<parseVars, cfgVars, loop_advance_steps, final_advance_steps,
                 extra_patient_calls, probe_calls, runObsVars>>

\* lines 180-184: the loop test, the counter and the advance step.  A
\* KeyboardInterrupt that arrives inside the try of lines 241-254 is caught
\* by its bare except and the step goes on.
loop_advance ==
  /\ ctl_pc = "loop"
  /\ loop_continues(scroll_attempts, MAX_SCROLL_ATTEMPTS)
  /\ scroll_attempts' = scroll_attempts + 1
  /\ loop_advance_steps' = loop_advance_steps + 1
  /\ \E swallowed \in InterruptArrives :
       interrupted_at' = first_interrupt(swallowed)
  /\ \E outcome \in AdvanceOutcomes :
       IF outcome = WebDriverError
       THEN /\ ctl_pc' = "returned"
            /\ scroll_result' = "False"
            /\ raised_in' = "advance_step"
       ELSE /\ ctl_pc' = "query"
            /\ UNCHANGED <<scroll_result, raised_in>>
  /\ UNCHANGED <<extVars, runVars>>
  /\ UNCHANGED <<parseVars, cfgVars, last_comment_count, no_new_comments_count,
                 current_count, attempt, final_count, comment_count,
                 final_advance_steps, extra_patient_calls, probe_calls,
                 max_observed, count_queries, streak_extra_calls, probe_saw,
                 runObsButInterrupt>>

\* line 180 false: the loop ends at the outer bound
loop_exhausted ==
  /\ ctl_pc = "loop"
  /\ ~loop_continues(scroll_attempts, MAX_SCROLL_ATTEMPTS)
  /\ ctl_pc' = "exit"
  /\ UNCHANGED <<extVars, runVars>>
  /\ UNCHANGED <<parseVars, cfgVars, last_comment_count, scroll_attempts,
                 no_new_comments_count, current_count, attempt, final_count,
                 comment_count, scroll_result, histVars, ctlObsVars,
                 runObsVars>>

\* lines 193-216 up to the call of _try_final_scroll: the count query, the
\* growth test, the recovery strategy and _should_stop_scrolling.  A
\* KeyboardInterrupt that arrives inside the try of lines 304-312 of the
\* recovery strategy is caught by its bare except.
check_for_new_comments(Counts) ==
  /\ ctl_pc = "query"
  /\ count_queries' = count_queries + 1
  /\ \E call \in DriverCall, r \in Counts :
       IF call = WebDriverError
       THEN /\ ScrollAborts
            /\ raised_in' = "count_query"
            /\ UNCHANGED <<extra_patient_calls, probe_calls, max_observed,
                           interrupted_at, streak_extra_calls, probe_saw>>
       ELSE
         /\ current_count' = r
         /\ max_observed' = Max2(max_observed, r)
         /\ UNCHANGED <<scroll_attempts, final_count, comment_count,
                        scroll_result, raised_in>>
         /\ IF has_new_comments(r, last_comment_count)
            THEN /\ last_comment_count' = r
                 /\ no_new_comments_count' = 0
                 /\ streak_extra_calls' = 0
                 /\ ctl_pc' = "loop"
                 /\ UNCHANGED <<attempt, extra_patient_calls, probe_calls,
                                interrupted_at, probe_saw>>
            ELSE
              LET stalls == no_new_comments_count + 1 IN
              /\ no_new_comments_count' = stalls
              /\ UNCHANGED last_comment_count
              /\ IF wants_extra_patient_scroll(stalls, last_comment_count,
                                               MAX_NO_NEW_COMMENTS)
                 THEN /\ extra_patient_calls' = extra_patient_calls + 1
                      /\ streak_extra_calls' = streak_extra_calls + 1
                      /\ \E swallowed \in InterruptArrives :
                           interrupted_at' = first_interrupt(swallowed)
                 ELSE UNCHANGED <<extra_patient_calls, interrupted_at,
                                  streak_extra_calls>>
              /\ IF patience_exhausted(stalls, MAX_NO_NEW_COMMENTS)
                 THEN /\ ctl_pc' = "final_advance"
                      /\ attempt' = 0
                      /\ UNCHANGED <<probe_calls, probe_saw>>
                 ELSE IF wants_related_probe(stalls, last_comment_count)
                 THEN /\ probe_calls' = probe_calls + 1
                      /\ UNCHANGED attempt
                      /\ \E n_related \in {0, RELATED_VIDEOS_MANY + 1},
                            comments_area \in BOOLEAN,
                            continuation_items \in BOOLEAN :
                           /\ probe_saw' =
                                <<[many_related |->
                                     n_related > RELATED_VIDEOS_MANY,
                                   comments_area |-> comments_area,
                                   continuation_items |-> continuation_items]>>
                           /\ ctl_pc' =
                                IF detect_related_videos_section(
                                     n_related, comments_area,
                                     continuation_items)
                                THEN after_probe_fired ELSE "loop"
                 ELSE /\ ctl_pc' = "loop"
                      /\ UNCHANGED <<attempt, probe_calls, probe_saw>>
  /\ UNCHANGED <<extVars, runVars>>
  /\ UNCHANGED <<parseVars, cfgVars, loop_advance_steps, final_advance_steps,
                 runObsButInterrupt>>

\* _try_final_scroll, line 348: one last-resort advance step
final_advance ==
  /\ ctl_pc = "final_advance"
  /\ final_advance_steps' = final_advance_steps + 1
  /\ \E swallowed \in InterruptArrives :
       interrupted_at' = first_interrupt(swallowed)
  /\ \E outcome \in AdvanceOutcomes :
       IF outcome = WebDriverError
       THEN /\ ctl_pc' = "returned"
            /\ scroll_result' = "False"
            /\ raised_in' = "advance_step"
       ELSE /\ ctl_pc' = "final_query"
            /\ UNCHANGED <<scroll_result, raised_in>>
  /\ UNCHANGED <<extVars, runVars>>
  /\ UNCHANGED <<parseVars, cfgVars, last_comment_count, scroll_attempts,
                 no_new_comments_count, current_count, attempt, final_count,
                 comment_count, loop_advance_steps, extra_patient_calls,
                 probe_calls, max_observed, count_queries, streak_extra_calls,
                 probe_saw,
                 runObsButInterrupt>>

\* _try_final_scroll, lines 352-362, and what _should_stop_scrolling and the
\* loop make of its result (lines 326-328, 214-216)
final_query(Counts) ==
  /\ ctl_pc = "final_query"
  /\ count_queries' = count_queries + 1
  /\ \E call \in DriverCall, r \in Counts :
       IF call = WebDriverError
       THEN /\ ScrollAborts
            /\ raised_in' = "count_query"
            /\ UNCHANGED max_observed
       ELSE
         /\ final_count' = r
         /\ max_observed' = Max2(max_observed, r)
         /\ UNCHANGED <<last_comment_count, scroll_attempts,
                        no_new_comments_count, current_count, comment_count,
                        scroll_result, raised_in>>
         /\ IF r > last_comment_count
            THEN /\ ctl_pc' = "loop"
                 /\ UNCHANGED attempt
            ELSE /\ attempt' = attempt + 1
                 /\ ctl_pc' = IF final_attempts_left(attempt + 1)
                              THEN "final_advance" ELSE "exit"
  /\ UNCHANGED <<extVars, runVars>>
  /\ UNCHANGED <<parseVars, cfgVars, loop_advance_steps, final_advance_steps,
                 extra_patient_calls, probe_calls, streak_extra_calls,
                 probe_saw,
                 runObsVars>>

\* a run that loaded nothing reported as a success
scroll_succeeded_on_any_count(count) == count >= 0

\* smart_infinite_scroll, line 138
scroll_succeeded(count) == count > 0

\* line 218, and smart_infinite_scroll lines 135-138
smart_infinite_scroll_return ==
  /\ ctl_pc = "exit"
  /\ comment_count' = last_comment_count
  /\ scroll_result' = IF scroll_succeeded(last_comment_count)
                      THEN "True" ELSE "False"
  /\ ctl_pc' = "returned"
  /\ UNCHANGED <<extVars, runVars>>
  /\ UNCHANGED <<parseVars, cfgVars, last_comment_count, scroll_attempts,
                 no_new_comments_count, current_count, attempt, final_count,
                 histVars, ctlObsVars, runObsVars>>

\* a step of the controller on a page that reports the counts in Counts
ControllerStep(Counts) ==
  \/ scroll_to_comments_section
  \/ perform_smart_scroll_start(Counts)
  \/ loop_advance
  \/ loop_exhausted
  \/ check_for_new_comments(Counts)
  \/ final_advance
  \/ final_query(Counts)
  \/ smart_infinite_scroll_return

(***************************************************************************)
(* The input table.  A row is one video; its three declared metrics are    *)
(* the cells of the comment-count, like-count and view-count columns       *)
(* (lines 697-699), kept as the characters of the cell (an empty cell is   *)
(* read as NaN).                                                           *)
(***************************************************************************)
VideoRow(no, url, comments, likes, views) ==
  [No |-> no, URL |-> url, declared_comments |-> comments,
   declared_likes |-> likes, declared_views |-> views]

Row1 == VideoRow(1, "u1", <<"1", "0", "0">>, <<>>, <<"1", "0", "0">>)
Row2 == VideoRow(2, "u2", <<"5", "0", "0">>, <<"a", "b", "c">>, <<"5", "0", "0">>)
Row3 == VideoRow(3, "u3", <<"9", "0", "0">>, <<"-", "5">>, <<"9", "0", "0">>)
Row4 == VideoRow(4, "u4", <<>>, <<"2", ".", "9">>, <<"1", ",", "0", "0", "0">>)
Row5 == VideoRow(5, "u5", <<"-", "5">>, <<"5", "0", "0">>, <<"a", "b", "c">>)
Row6 == VideoRow(6, "u6", <<"a", "b", "c">>, <<"1", ",", "0", "0", "0">>, <<"-", "5">>)
Row7 == VideoRow(7, "u7", <<"2", ".", "9">>, <<"5", " ", "0", "0">>, <<>>)
Row8 == VideoRow(8, "u8", <<"1", ",", "0", "0", "0">>, <<"9", "0", "0">>, <<"5", " ", "0", "0">>)

NoRow == VideoRow(0, "", <<>>, <<>>, <<>>)

RECURSIVE SeqsUpTo(_, _)
\* the sequences over S of length at most n
SeqsUpTo(S, n) ==
  IF n = 0 THEN {<<>>}
  ELSE LET shorter == SeqsUpTo(S, n - 1)
       IN shorter \cup {Append(q, x) : q \in shorter, x \in S}

\* the tables of at most n rows, each a different video
TablesUpTo(Rows, n) ==
  {t \in SeqsUpTo(Rows, n) :
     \A i \in 1..Len(t) : \A j \in 1..Len(t) : t[i] = t[j] => i = j}

(***************************************************************************)
(* config.py.  A threshold is <<n>>, or <<>> for None.                     *)
(***************************************************************************)
None == <<>>

\* validate_config, run by `import config`: None < 0 raises TypeError at the
\* first absent minimum, before the collected errors are raised
validate_config ==
  IF MIN_COMMENTS = None \/ MIN_LIKES = None \/ MIN_VIEWS = None
  THEN "TypeError"
  ELSE IF \/ MAX_SCROLL_ATTEMPTS <= 0
          \/ MAX_NO_NEW_COMMENTS <= 0
          \/ MIN_COMMENTS[1] < 0
          \/ MIN_LIKES[1] < 0
          \/ MIN_VIEWS[1] < 0
  THEN "ValueError"
  ELSE "ok"

\* config.py line 101
import_config ==
  /\ run_pc = "import"
  /\ config_status' = validate_config
  /\ run_pc' = IF validate_config = "ok" THEN "load" ELSE "import_failed"
  /\ UNCHANGED <<parseVars, cfgVars, ctlVars, histVars, extVars, df, df_filtered,
                 df_refiltered, orchVars, ctlObsVars, runObsVars>>

(***************************************************************************)
(* The video filter.                                                       *)
(***************************************************************************)
Digits == <<"0", "1", "2", "3", "4", "5", "6", "7", "8", "9">>
IsDigit(c) == \E d \in 1..Len(Digits) : Digits[d] = c
DigitValue(c) == (CHOOSE d \in 1..Len(Digits) : Digits[d] = c) - 1

RECURSIVE DecimalValue(_)
\* the number a run of digits writes
DecimalValue(digits) ==
  IF digits = <<>> THEN 0
  ELSE 10 * DecimalValue(SubSeq(digits, 1, Len(digits) - 1))
         + DigitValue(digits[Len(digits)])

\* str.replace(c, '')
without_char(text, c) == SelectSeq(text, LAMBDA x : x # c)

\* float() accepts text: an optional sign, then digits with at most one
\* point and at least one digit (of the characters the cells are made of)
is_float_literal(text) ==
  LET unsigned == IF text # <<>> /\ text[1] = "-" THEN Tail(text) ELSE text
  IN /\ \A k \in 1..Len(unsigned) : IsDigit(unsigned[k]) \/ unsigned[k] = "."
     /\ Cardinality({k \in 1..Len(unsigned) : unsigned[k] = "."}) <= 1
     /\ \E k \in 1..Len(unsigned) : IsDigit(unsigned[k])

\* int(float(text)) of an accepted text: the fraction is cut off
int_of_float(text) ==
  LET negative == text[1] = "-"
      unsigned == IF negative THEN Tail(text) ELSE text
      points == {k \in 1..Len(unsigned) : unsigned[k] = "."}
      whole == IF points = {} THEN unsigned
               ELSE SubSeq(unsigned, 1, (CHOOSE k \in points : TRUE) - 1)
  IN IF negative THEN 0 - DecimalValue(whole) ELSE DecimalValue(whole)

\* parse_korean_number (lines 686-694)
parse_korean_number(value) ==
  IF value = <<>> THEN 0
  ELSE LET str_val == without_char(without_char(value, ","), " ")
       IN IF is_float_literal(str_val) THEN int_of_float(str_val) ELSE 0

HelperColumns == {"comments_int", "likes_int", "views_int"}

\* lines 697-699: the three helper columns
with_helper_columns(table) ==
  [i \in 1..Len(table) |->
     table[i] @@ [comments_int |-> parse_korean_number(table[i].declared_comments),
                  likes_int |-> parse_korean_number(table[i].declared_likes),
                  views_int |-> parse_korean_number(table[i].declared_views)]]

\* line 761
drop_helper_columns(table) ==
  [i \in 1..Len(table) |->
     [c \in (DOMAIN table[i]) \ HelperColumns |-> table[i][c]]]

\* the bound itself is lost
keep_at_least_exclusive(table, column, minimum) ==
  IF minimum[1] > 0
  THEN SelectSeq(table, LAMBDA v : v[column] > minimum[1])
  ELSE table

\* a minimum of 0 is applied
keep_at_least_from_zero(table, column, minimum) ==
  IF minimum[1] >= 0
  THEN SelectSeq(table, LAMBDA v : v[column] >= minimum[1])
  ELSE table

\* one minimum filter (lines 705-707, 713-715, 721-723)
keep_at_least(table, column, minimum) ==
  IF minimum[1] > 0
  THEN SelectSeq(table, LAMBDA v : v[column] >= minimum[1])
  ELSE table

\* the rows are compared with `before`, the row count, not with the maximum
keep_at_most_before(table, column, maximum) ==
  IF maximum # None
  THEN SelectSeq(table, LAMBDA v : v[column] <= Len(table))
  ELSE table

\* one maximum filter (lines 729-731, 736-738, 743-745)
keep_at_most(table, column, maximum) ==
  IF maximum # None
  THEN SelectSeq(table, LAMBDA v : v[column] <= maximum[1])
  ELSE table

\* None > 0 at line 705, 713 or 721
apply_video_filters_raises ==
  MIN_COMMENTS = None \/ MIN_LIKES = None \/ MIN_VIEWS = None

\* apply_video_filters, when it does not raise
apply_video_filters(table) ==
  LET t0 == with_helper_columns(table)
      t1 == keep_at_least(t0, "comments_int", MIN_COMMENTS)
      t2 == keep_at_least(t1, "likes_int", MIN_LIKES)
      t3 == keep_at_least(t2, "views_int", MIN_VIEWS)
      t4 == keep_at_most(t3, "comments_int", MAX_COMMENTS)
      t5 == keep_at_most(t4, "likes_int", MAX_LIKES)
      t6 == keep_at_most(t5, "views_int", MAX_VIEWS)
  IN drop_helper_columns(t6)

\* process_videos, line 769: the table is whatever the file holds
read_csv(Tables) ==
  /\ run_pc = "load"
  /\ df' \in Tables
  /\ run_pc' = "filter"
  /\ UNCHANGED <<parseVars, cfgVars, ctlVars, histVars, extVars, config_status,
                 df_filtered, df_refiltered, orchVars, ctlObsVars, runObsVars>>

\* process_videos, line 773
filter_videos ==
  /\ run_pc = "filter"
  /\ IF apply_video_filters_raises
     THEN /\ run_pc' = "finally"
          /\ UNCHANGED df_filtered
     ELSE /\ df_filtered' = apply_video_filters(df)
          /\ run_pc' = "setup"
  /\ filter_calls' = filter_calls + 1
  /\ UNCHANGED <<parseVars, cfgVars, ctlVars, histVars, extVars, config_status, df,
                 df_refiltered, idx, driver, all_comments, processed_videos,
                 failed_videos, progress, output, navigated, quit_calls,
                 ctlObsVars, runObsVars>>

\* the filter applied once more, to its own output, under the same bounds
filter_again ==
  /\ run_pc = "setup"
  /\ df_refiltered' = apply_video_filters(df_filtered)
  /\ run_pc' = "refiltered"
  /\ UNCHANGED <<parseVars, cfgVars, ctlVars, histVars, extVars, config_status, df,
                 df_filtered, orchVars, ctlObsVars, runObsVars>>

(***************************************************************************)
(* The extraction pipeline.  A rendered comment thread is described by     *)
(* what its queries return: whether its #comment element exists, and for   *)
(* #content-text and #author-text whether the element exists and the text  *)
(* it shows.  The engagement and status fields are extracted like the      *)
(* author, each with a default on failure, and decide nothing here.        *)
(***************************************************************************)
MissingElement == [found |-> FALSE, text |-> <<>>]
\* the texts a #content-text shows: empty, blank, plain, padded
ContentTexts == {<<>>, <<" ">>, <<"a">>, <<" ", "c", " ">>}
ContentElements ==
  {MissingElement} \cup {[found |-> TRUE, text |-> t] : t \in ContentTexts}
AuthorElements == {MissingElement, [found |-> TRUE, text |-> <<"b", " ">>]}
CommentNodes ==
  {[comment |-> FALSE, content_text |-> MissingElement,
    author_text |-> MissingElement]}
  \cup {[comment |-> TRUE, content_text |-> c, author_text |-> a] :
          c \in ContentElements, a \in AuthorElements}

RECURSIVE lstrip(_)
lstrip(text) ==
  IF text # <<>> /\ Head(text) = " " THEN lstrip(Tail(text)) ELSE text

RECURSIVE rstrip(_)
rstrip(text) ==
  IF text # <<>> /\ text[Len(text)] = " "
  THEN rstrip(SubSeq(text, 1, Len(text) - 1)) ELSE text

\* str.strip()
strip(text) == rstrip(lstrip(text))

\* one try/except of the per-field extraction: the stripped text, or ""
field_text(element) == IF element.found THEN strip(element.text) ELSE <<>>

\* _extract_basic_comment_info
extract_basic_comment_info(comment_element) ==
  [comment_text |-> field_text(comment_element.content_text),
   author_name |-> field_text(comment_element.author_text)]

\* the record is returned whatever its text
extract_comment_data_unchecked(comment_element) ==
  <<extract_basic_comment_info(comment_element)>>

\* extract_comment_data: <<record>>, or <<>> for None
extract_comment_data(comment_element) ==
  LET comment_data == extract_basic_comment_info(comment_element)
  IN IF comment_data.comment_text # <<>> THEN <<comment_data>> ELSE <<>>

\* the position stored one too low
build_video_metadata_zero_based(video_data, video_url, position) ==
  [video_no |-> video_data.No, video_url |-> video_data.URL,
   comment_position |-> position - 1]

\* _build_video_metadata (the row always holds 'URL': line 784 read it)
build_video_metadata(video_data, video_url, position) ==
  [video_no |-> video_data.No, video_url |-> video_data.URL,
   comment_position |-> position]

RECURSIVE process_first_elements(_, _, _, _)
\* the loop of _process_comment_elements over the first n nodes; the node
\* handled last has the enumerate index i = n - 1
process_first_elements(elements, video_data, video_url, n) ==
  IF n = 0 THEN <<>>
  ELSE
    LET before == process_first_elements(elements, video_data, video_url, n - 1)
        i == n - 1
        comment_element == elements[n]
        comment_data == IF comment_element.comment
                        THEN extract_comment_data(comment_element)
                        ELSE <<>>
    IN IF comment_data # <<>>
       THEN Append(before,
                   build_video_metadata(video_data, video_url, i + 1)
                     @@ comment_data[1])
       ELSE before

\* _process_comment_elements
process_comment_elements(elements, video_data, video_url) ==
  process_first_elements(elements, video_data, video_url, Len(elements))

\* no field read is hit by an interrupt
NoHit == <<0, "none">>

\* the field reads of _extract_basic_comment_info during which a
\* KeyboardInterrupt may arrive: <<node, field>>
FieldHits(elements) ==
  {NoHit} \cup
  (IF InVideoLoop
   THEN {<<k, f>> : k \in {j \in 1..Len(elements) : elements[j].comment},
                    f \in {"content_text", "author_text"}}
   ELSE {})

\* the bare excepts of lines 414 and 421 catch a KeyboardInterrupt like any
\* failure of the read: the field is ""
field_interrupted(elements, hit) ==
  IF hit = NoHit THEN elements
  ELSE [elements EXCEPT ![hit[1]][hit[2]] = MissingElement]

\* scrape_video_comments, lines 547-549, on the nodes read at line 544
extract_loaded_comments ==
  /\ extract_pc = "ready"
  /\ \E hit \in FieldHits(comment_elements) :
       /\ video_comments' =
            process_comment_elements(field_interrupted(comment_elements, hit),
                                     row, row.URL)
       /\ interrupted_at' = first_interrupt(hit # NoHit)
  /\ extract_pc' = "done"
  /\ UNCHANGED <<row, comment_elements>>
  /\ UNCHANGED <<parseVars, cfgVars, ctlVars, histVars, runVars, ctlObsVars,
                 runObsButInterrupt>>

(***************************************************************************)
(* The run orchestrator, process_videos, and scrape_video_comments.        *)
(***************************************************************************)
\* the rows the loop of process_videos goes through (line 782)
videos_to_process_unfiltered == df

\* the rows the loop of process_videos goes through (line 782)
videos_to_process == df_filtered

\* the run goes on whenever a driver object exists
setup_returns_true_with_driver(outcome) == outcome # "no_driver"

\* setup_chrome_driver returns True (line 71) only when nothing raised
setup_returns_true(outcome) == outcome = "ready"

\* setup_chrome_driver and lines 777-779: the driver comes up, or the setup
\* fails before webdriver.Chrome returned, or after it (line 67 or 68)
setup_chrome_driver ==
  /\ run_pc = "setup"
  /\ \E outcome \in {"ready", "no_driver", "driver_then_error"} :
       /\ driver' = IF outcome = "no_driver" THEN "None" ELSE "open"
       /\ run_pc' = IF setup_returns_true(outcome) THEN "loop" ELSE "finally"
       /\ setup_succeeded' = (outcome = "ready")
  /\ UNCHANGED <<parseVars, cfgVars, ctlVars, histVars, extVars, config_status, df,
                 df_filtered, df_refiltered, idx, all_comments,
                 processed_videos, failed_videos, progress, output, navigated,
                 filter_calls, quit_calls, ctlObsVars, started,
                 interrupted_at, interrupted_video, unavailable, save_calls,
                 checkpoint_failed>>

\* line 782: the next row, or the end of the loop
next_video ==
  /\ run_pc = "loop"
  /\ IF idx <= Len(videos_to_process)
     THEN /\ row' = videos_to_process[idx]
          /\ run_pc' = "availability"
          /\ started' = started + 1
     ELSE /\ run_pc' = "save_results"
          /\ UNCHANGED <<row, started>>
  /\ UNCHANGED <<parseVars, cfgVars, ctlVars, histVars, comment_elements, video_comments,
                 extract_pc, config_status, df, df_filtered, df_refiltered,
                 orchVars, ctlObsVars, interrupted_at, interrupted_video,
                 unavailable, save_calls, setup_succeeded, checkpoint_failed>>

\* the entry names no video
failed_video_unnamed(video_url, why) == [url |-> "", reason |-> why]

\* an entry of self.failed_videos (the timestamp is left out)
failed_video(video_url, why) == [url |-> video_url, reason |-> why]

\* check_video_availability and lines 530-536 of scrape_video_comments; an
\* available video starts the controller
check_video_availability ==
  /\ run_pc = "availability"
  /\ navigated' = Append(navigated, row.URL)
  /\ \E outcome \in {"available", "TimeoutException", WebDriverError} :
       IF outcome = "available"
       THEN /\ run_pc' = "scroll"
            /\ ctl_pc' = "section"
            /\ UNCHANGED <<failed_videos, unavailable>>
       ELSE /\ failed_videos' =
                 Append(failed_videos, failed_video(row.URL, "Video unavailable"))
            /\ unavailable' = Append(unavailable, row.URL)
            /\ run_pc' = "accumulate"
            /\ UNCHANGED ctl_pc
  /\ UNCHANGED <<parseVars, cfgVars, last_comment_count, scroll_attempts,
                 no_new_comments_count, current_count, attempt, final_count,
                 comment_count, scroll_result, histVars, extVars,
                 config_status, df, df_filtered, df_refiltered, idx, driver,
                 all_comments, processed_videos, progress, output,
                 filter_calls, quit_calls, ctlObsVars, started,
                 interrupted_at, interrupted_video, save_calls,
                 setup_succeeded, checkpoint_failed>>

\* lines 539-541: what scrape_video_comments makes of the controller's
\* result; the locals of _perform_smart_scroll are gone
scroll_finished ==
  /\ run_pc = "scroll"
  /\ ctl_pc = "returned"
  /\ run_pc' = IF scroll_result = "True" THEN "elements" ELSE "accumulate"
  /\ ctl_pc' = "idle"
  /\ last_comment_count' = 0
  /\ scroll_attempts' = 0
  /\ no_new_comments_count' = 0
  /\ current_count' = 0
  /\ attempt' = 0
  /\ final_count' = 0
  /\ loop_advance_steps' = 0
  /\ final_advance_steps' = 0
  /\ extra_patient_calls' = 0
  /\ probe_calls' = 0
  /\ max_observed' = 0
  /\ count_queries' = 0
  /\ streak_extra_calls' = 0
  /\ probe_saw' = <<>>
  /\ UNCHANGED <<parseVars, cfgVars, extVars, config_status, df, df_filtered,
                 df_refiltered, orchVars, comment_count, scroll_result,
                 raised_in, runObsVars>>

\* line 544, and the handler of lines 554-561 when the query raises
get_current_comments(Batches) ==
  /\ run_pc = "elements"
  /\ \E call \in DriverCall, batch \in Batches :
       IF call = WebDriverError
       THEN /\ failed_videos' =
                 Append(failed_videos, failed_video(row.URL, WebDriverError))
            /\ run_pc' = "accumulate"
            /\ UNCHANGED <<comment_elements, extract_pc>>
       ELSE /\ comment_elements' = batch
            /\ extract_pc' = "ready"
            /\ run_pc' = "extract"
            /\ UNCHANGED failed_videos
  /\ UNCHANGED <<parseVars, cfgVars, ctlVars, histVars, row, video_comments,
                 config_status, df, df_filtered, df_refiltered, idx, driver,
                 all_comments, processed_videos, progress, output, navigated,
                 filter_calls, quit_calls, ctlObsVars, runObsVars>>

\* lines 790-795: the records scrape_video_comments returned are added
accumulate_comments ==
  /\ \/ run_pc = "accumulate"
     \/ run_pc = "extract" /\ extract_pc = "done"
  /\ IF video_comments # <<>>
     THEN /\ all_comments' = all_comments \o video_comments
          /\ processed_videos' = Append(processed_videos, row.URL)
     ELSE UNCHANGED <<all_comments, processed_videos>>
  /\ run_pc' = "checkpoint"
  /\ comment_elements' = <<>>
  /\ video_comments' = <<>>
  /\ extract_pc' = "idle"
  /\ UNCHANGED <<parseVars, cfgVars, ctlVars, histVars, row, config_status, df,
                 df_filtered, df_refiltered, idx, driver, failed_videos,
                 progress, output, navigated, filter_calls, quit_calls,
                 ctlObsVars, runObsVars>>

\* the count of the snapshot taken from the processed list
progress_data_counting_videos(processed, failed, comments) ==
  [processed_videos |-> processed, failed_videos |-> failed,
   total_comments_scraped |-> Len(processed)]

\* save_progress: the snapshot written to progress.json (the instant of the
\* write is left out)
progress_data(processed, failed, comments) ==
  [processed_videos |-> processed, failed_videos |-> failed,
   total_comments_scraped |-> Len(comments)]

\* the handler leaves the loop
after_exception_break == "save_results"

\* line 806: where the handler of line 804 goes, continue
after_exception == "loop"

\* lines 798-799 and 804-806: the checkpoint is written, or open raises and
\* the handler of line 804 absorbs it; then the delay, and the next row
save_progress ==
  /\ run_pc = "checkpoint"
  /\ \E written \in BOOLEAN :
       /\ progress' =
            IF written
            THEN <<progress_data(processed_videos, failed_videos, all_comments)>>
            ELSE progress
       /\ checkpoint_failed' = ~written
       /\ run_pc' = IF written THEN "loop" ELSE after_exception
  /\ idx' = idx + 1
  /\ row' = NoRow
  /\ comment_count' = 0
  /\ scroll_result' = "none"
  /\ raised_in' = "none"
  /\ UNCHANGED <<parseVars, cfgVars, ctl_pc, last_comment_count, scroll_attempts,
                 no_new_comments_count, current_count, attempt, final_count,
                 histVars, comment_elements, video_comments, extract_pc,
                 config_status, df, df_filtered, df_refiltered, driver,
                 all_comments, processed_videos, failed_videos, output,
                 navigated, filter_calls, quit_calls, count_queries,
                 streak_extra_calls, probe_saw, started,
                 interrupted_at, interrupted_video, unavailable, save_calls,
                 setup_succeeded>>

\* the handler keeps what the interrupted video had extracted
interrupted_comments_kept(in_flight) == in_flight

\* what the handler of lines 801-803 adds to self.all_comments of the records
\* in flight: nothing, they were locals of scrape_video_comments
interrupted_comments(in_flight) == <<>>

\* lines 801-803: a KeyboardInterrupt raised inside the try of lines 783-799
\* and caught by no bare except on its way reaches the handler, which leaves
\* the loop; what the video had in flight is gone with the frames it was in
keyboard_interrupt ==
  /\ run_pc \in {"availability", "scroll", "elements", "extract",
                 "accumulate", "checkpoint"}
  /\ interrupted_at' = first_interrupt(TRUE)
  /\ interrupted_video' =
       IF run_pc = "checkpoint" THEN interrupted_video
       ELSE <<[url |-> row.URL, in_flight |-> Len(video_comments)]>>
  /\ all_comments' = all_comments \o interrupted_comments(video_comments)
  /\ run_pc' = "save_results"
  /\ ctl_pc' = "idle"
  /\ last_comment_count' = 0
  /\ scroll_attempts' = 0
  /\ no_new_comments_count' = 0
  /\ current_count' = 0
  /\ attempt' = 0
  /\ final_count' = 0
  /\ comment_count' = 0
  /\ scroll_result' = "none"
  /\ loop_advance_steps' = 0
  /\ final_advance_steps' = 0
  /\ extra_patient_calls' = 0
  /\ probe_calls' = 0
  /\ max_observed' = 0
  /\ count_queries' = 0
  /\ streak_extra_calls' = 0
  /\ probe_saw' = <<>>
  /\ raised_in' = "none"
  /\ row' = NoRow
  /\ comment_elements' = <<>>
  /\ video_comments' = <<>>
  /\ extract_pc' = "idle"
  /\ UNCHANGED <<parseVars, cfgVars, config_status, df, df_filtered, df_refiltered,
                 idx, driver, processed_videos, failed_videos, progress,
                 output, navigated, filter_calls, quit_calls, started,
                 unavailable, save_calls, setup_succeeded, checkpoint_failed>>

\* a KeyboardInterrupt raised at line 782, where the for statement fetches
\* the next row outside the try of line 783: no handler of the loop catches
\* it and it leaves process_videos through the finally of line 811
keyboard_interrupt_outside_try ==
  /\ run_pc = "loop"
  /\ interrupted_at' = first_interrupt(TRUE)
  /\ run_pc' = "finally"
  /\ UNCHANGED <<parseVars, cfgVars, ctlVars, histVars, extVars, config_status, df,
                 df_filtered, df_refiltered, orchVars, ctlObsVars, started,
                 interrupted_video, unavailable, save_calls, setup_succeeded,
                 checkpoint_failed>>

\* save_results, called at line 809
save_results ==
  /\ run_pc = "save_results"
  /\ output' = IF all_comments # <<>> THEN <<all_comments>> ELSE output
  /\ save_calls' = save_calls + 1
  /\ run_pc' = "finally"
  /\ UNCHANGED <<parseVars, cfgVars, ctlVars, histVars, extVars, config_status, df,
                 df_filtered, df_refiltered, idx, driver, all_comments,
                 processed_videos, failed_videos, progress, navigated,
                 filter_calls, quit_calls, ctlObsVars, started,
                 interrupted_at, interrupted_video, unavailable,
                 setup_succeeded, checkpoint_failed>>

\* the driver quit only after a setup that succeeded
driver_exists_after_setup(d) == d # "None" /\ setup_succeeded

\* line 813: self.driver is set
driver_exists(d) == d # "None"

\* lines 812-815
finally_quit_driver ==
  /\ run_pc = "finally"
  /\ IF driver_exists(driver)
     THEN /\ driver' = "quit"
          /\ quit_calls' = quit_calls + 1
     ELSE UNCHANGED <<driver, quit_calls>>
  /\ run_pc' = "done"
  /\ UNCHANGED <<parseVars, cfgVars, ctlVars, histVars, extVars, config_status, df,
                 df_filtered, df_refiltered, idx, all_comments,
                 processed_videos, failed_videos, progress, output, navigated,
                 filter_calls, ctlObsVars, runObsVars>>

OrchestratorFresh ==
  /\ idx = 1
  /\ driver = "None"
  /\ all_comments = <<>>
  /\ processed_videos = <<>>
  /\ failed_videos = <<>>
  /\ progress = <<>>
  /\ output = <<>>
  /\ navigated = <<>>
  /\ filter_calls = 0
  /\ quit_calls = 0
  /\ started = 0
  /\ interrupted_at = <<>>
  /\ interrupted_video = <<>>
  /\ unavailable = <<>>
  /\ save_calls = 0
  /\ setup_succeeded = FALSE
  /\ checkpoint_failed = FALSE

RunIdle ==
  /\ config_status = "ok"
  /\ run_pc = "idle"
  /\ df = <<>>
  /\ df_filtered = <<>>
  /\ df_refiltered = <<>>
  /\ OrchestratorFresh

\* the filter thresholds config.py ships
FiltersAsShipped ==
  /\ MIN_COMMENTS = <<SHIPPED_MIN_COMMENTS>>
  /\ MIN_LIKES = <<SHIPPED_MIN_LIKES>>
  /\ MIN_VIEWS = <<SHIPPED_MIN_VIEWS>>
  /\ MAX_COMMENTS = None
  /\ MAX_LIKES = None
  /\ MAX_VIEWS = None

(***************************************************************************)
(* One controller run, for any patience limit and outer bound.             *)
(***************************************************************************)
ControllerFresh ==
  /\ ctl_pc = "section"
  /\ last_comment_count = 0
  /\ scroll_attempts = 0
  /\ no_new_comments_count = 0
  /\ current_count = 0
  /\ attempt = 0
  /\ final_count = 0
  /\ comment_count = 0
  /\ scroll_result = "none"
  /\ loop_advance_steps = 0
  /\ final_advance_steps = 0
  /\ extra_patient_calls = 0
  /\ probe_calls = 0
  /\ max_observed = 0
  /\ count_queries = 0
  /\ streak_extra_calls = 0
  /\ probe_saw = <<>>
  /\ raised_in = "none"

ControllerIdle ==
  /\ ctl_pc = "idle"
  /\ last_comment_count = 0
  /\ scroll_attempts = 0
  /\ no_new_comments_count = 0
  /\ current_count = 0
  /\ attempt = 0
  /\ final_count = 0
  /\ comment_count = 0
  /\ scroll_result = "none"
  /\ loop_advance_steps = 0
  /\ final_advance_steps = 0
  /\ extra_patient_calls = 0
  /\ probe_calls = 0
  /\ max_observed = 0
  /\ count_queries = 0
  /\ streak_extra_calls = 0
  /\ probe_saw = <<>>
  /\ raised_in = "none"

ExtractIdle ==
  /\ row = NoRow
  /\ comment_elements = <<>>
  /\ video_comments = <<>>
  /\ extract_pc = "idle"

ParseIdle ==
  /\ count_text = <<>>
  /\ parsed = <<>>
  /\ parse_pc = "idle"

InitScroll ==
  /\ MAX_NO_NEW_COMMENTS \in 1..MaxPatience
  /\ MAX_SCROLL_ATTEMPTS \in
       MAX_NO_NEW_COMMENTS..(MAX_NO_NEW_COMMENTS + MaxExtraAttempts)
  /\ FiltersAsShipped
  /\ ControllerFresh
  /\ ExtractIdle
  /\ RunIdle
  /\ ParseIdle

NextScroll == ControllerStep(CountValues)

SpecScroll == InitScroll /\ [][NextScroll]_vars

\* the controller runs on one thread that nothing else blocks
FairSpecScroll == SpecScroll /\ WF_vars(NextScroll)

(***************************************************************************)
(* The controller alone with a patience limit up to MaxProbePatience, long *)
(* enough for the related-videos probe of line 332, on a page that reports *)
(* no comment, one comment or RELATED_PROBE_MAX_COUNT comments.  The outer  *)
(* bound is the patience limit itself or large enough for the stall count  *)
(* to pass RELATED_PROBE_STALLS under every patience limit.                *)
(***************************************************************************)
ProbeCountValues == {0, 1, RELATED_PROBE_MAX_COUNT}

InitProbe ==
  /\ MAX_NO_NEW_COMMENTS \in 1..MaxProbePatience
  /\ MAX_SCROLL_ATTEMPTS \in
       {MAX_NO_NEW_COMMENTS, MaxProbePatience + MaxExtraAttempts}
  /\ FiltersAsShipped
  /\ ControllerFresh
  /\ ExtractIdle
  /\ RunIdle
  /\ ParseIdle

NextProbe == ControllerStep(ProbeCountValues)

SpecProbe == InitProbe /\ [][NextProbe]_vars

(***************************************************************************)
(* _parse_count (lines 468-489).  A text is a sequence of characters, a    *)
(* Python int is written as its decimal digits (it has no width), and a    *)
(* float is an IEEE-754 double: a natural number of at most MANTISSA_BITS  *)
(* bits scaled by a power of two.  Natural numbers are sequences of        *)
(* decimal digits, lowest digit first, without high zeros; <<>> is zero.   *)
(***************************************************************************)
\* the characters of the texts _parse_count is given here
ParseChars == {"1", "4", "0", ".", ",", "K", "k", "M", "a"}
\* the texts the specification names
ExampleTexts ==
  {<<"1", ".", "2", "K">>, <<"9", "5", "0">>, <<>>, <<"a", "b", "c">>}
CountTexts == SeqsUpTo(ParseChars, MaxTextLen) \cup ExampleTexts

\* str.upper, on the letters of the texts
upper_char(c) ==
  CASE c = "k" -> "K" [] c = "m" -> "M" [] c = "a" -> "A"
    [] c = "b" -> "B" [] c = "c" -> "C" [] OTHER -> c
upper(text) == [i \in 1..Len(text) |-> upper_char(text[i])]

\* `suffix in count_text`
contains(text, c) == \E i \in 1..Len(text) : text[i] = c

RECURSIVE strip_high_zeros(_)
strip_high_zeros(n) ==
  IF n = <<>> THEN <<>>
  ELSE IF n[Len(n)] = 0 THEN strip_high_zeros(SubSeq(n, 1, Len(n) - 1))
  ELSE n

\* the number a run of digit characters writes
nat_of_digits(digits) ==
  strip_high_zeros([i \in 1..Len(digits) |->
                      DigitValue(digits[Len(digits) + 1 - i])])

\* str(n) of a non-negative int
decimal_text(n) ==
  IF n = <<>> THEN <<"0">>
  ELSE [i \in 1..Len(n) |-> Digits[n[Len(n) + 1 - i] + 1]]

\* 2 * n: a digit of 5 or more carries one into the next
nat_double(n) ==
  LET carry(i) == IF i >= 1 /\ n[i] >= 5 THEN 1 ELSE 0
  IN [i \in 1..(Len(n) + carry(Len(n))) |->
        ((IF i <= Len(n) THEN 2 * n[i] ELSE 0) + carry(i - 1)) % 10]

RECURSIVE add_carry(_, _)
add_carry(n, carry) ==
  IF carry = 0 THEN n
  ELSE IF n = <<>> THEN <<carry>>
  ELSE <<(Head(n) + carry) % 10>>
         \o add_carry(Tail(n), (Head(n) + carry) \div 10)
nat_successor(n) == add_carry(n, 1)

\* n // 2: an odd digit hands ten down to the next lower one
nat_halve(n) ==
  strip_high_zeros(
    [i \in 1..Len(n) |->
       ((IF i < Len(n) /\ n[i + 1] % 2 = 1 THEN 10 ELSE 0) + n[i]) \div 2])

nat_is_odd(n) == n # <<>> /\ n[1] % 2 = 1

nat_less(a, b) ==
  \/ Len(a) < Len(b)
  \/ /\ Len(a) = Len(b)
     /\ \E i \in 1..Len(a) :
          /\ a[i] < b[i]
          /\ \A j \in (i + 1)..Len(a) : a[j] = b[j]

RECURSIVE nat_shift_left(_, _)
\* n * 2^bits
nat_shift_left(n, bits) ==
  IF bits = 0 \/ n = <<>> THEN n
  ELSE nat_shift_left(nat_double(n), bits - 1)

RECURSIVE nat_shift_right(_, _)
\* n // 2^bits
nat_shift_right(n, bits) ==
  IF bits = 0 \/ n = <<>> THEN n
  ELSE nat_shift_right(nat_halve(n), bits - 1)

\* n * 10^zeros
times_power_of_ten(n, zeros) ==
  IF n = <<>> THEN <<>> ELSE [i \in 1..zeros |-> 0] \o n

\* the significand of a double is below 2^MANTISSA_BITS, and that of a
\* normal double is not below half of it
SignificandLimit == nat_shift_left(<<1>>, MANTISSA_BITS)
SignificandFloor == nat_shift_left(<<1>>, MANTISSA_BITS - 1)

\* round-half-to-even of quotient + remainder/divisor
round_half_even(quotient, remainder, divisor) ==
  IF \/ nat_less(divisor, nat_double(remainder))
     \/ nat_double(remainder) = divisor /\ nat_is_odd(quotient)
  THEN nat_successor(quotient) ELSE quotient

RECURSIVE nearest_double(_, _, _)
\* the double nearest to numerator / 10^places (numerator > 0, less than
\* 2^MANTISSA_BITS): the significand m and the scale k of m / 2^k
nearest_double(numerator, places, k) ==
  LET quotient == SubSeq(numerator, places + 1, Len(numerator))
      remainder == strip_high_zeros(
                     SubSeq(numerator, 1,
                            IF places < Len(numerator) THEN places
                            ELSE Len(numerator)))
  IN IF nat_less(quotient, SignificandFloor)
     THEN nearest_double(nat_double(numerator), places, k + 1)
     ELSE [m |-> round_half_even(quotient, remainder,
                                 times_power_of_ten(<<1>>, places)),
           k |-> k]

RECURSIVE round_to_significand(_, _, _, _)
\* an exact product brought back to MANTISSA_BITS bits, round-half-to-even:
\* the bits shifted out are remembered as the last one and whether any
\* lower one was set
round_to_significand(value, k, last_bit, sticky) ==
  IF nat_less(value, SignificandLimit)
  THEN [m |-> IF last_bit /\ (sticky \/ nat_is_odd(value))
              THEN nat_successor(value) ELSE value,
        k |-> k]
  ELSE round_to_significand(nat_halve(value), k - 1, nat_is_odd(value),
                            sticky \/ last_bit)

\* float() accepts the text: digits with at most one point and at least one
\* digit (of the characters the texts are made of)
is_count_float_literal(text) ==
  /\ \A i \in 1..Len(text) : IsDigit(text[i]) \/ text[i] = "."
  /\ Cardinality({i \in 1..Len(text) : text[i] = "."}) <= 1
  /\ \E i \in 1..Len(text) : IsDigit(text[i])

\* int() accepts the text: digits only
is_int_literal(text) ==
  text # <<>> /\ \A i \in 1..Len(text) : IsDigit(text[i])

\* float(text): the double nearest to the decimal the text writes
float_of_text(text) ==
  LET points == {i \in 1..Len(text) : text[i] = "."}
      places == IF points = {} THEN 0
                ELSE Len(text) - (CHOOSE i \in points : TRUE)
      numerator == nat_of_digits(without_char(text, "."))
  IN IF numerator = <<>> THEN [m |-> <<>>, k |-> 0]
     ELSE nearest_double(numerator, places, 0)

\* x * multiplier of a double and a power of ten: the exact product, rounded
float_times(x, zeros) ==
  round_to_significand(times_power_of_ten(x.m, zeros), x.k, FALSE, FALSE)

\* int(x) of a non-negative double: the fraction is cut off
int_of_double(x) ==
  IF x.k >= 0 THEN nat_shift_right(x.m, x.k)
  ELSE nat_shift_left(x.m, 0 - x.k)

\* the product taken in decimal, without rounding
float_times_exactly(x, zeros) == [m |-> times_power_of_ten(x.m, zeros), k |-> x.k]

\* lines 481-483: int(float(count_text.replace(suffix, '')) * multiplier),
\* or 0 when float raises
parse_with_suffix(text, suffix, zeros) ==
  LET number == without_char(text, suffix)
  IN IF is_count_float_literal(number)
     THEN decimal_text(int_of_double(float_times(float_of_text(number), zeros)))
     ELSE <<"0">>

\* _parse_count: the int returned, in decimal
parse_count(raw_text) ==
  IF raw_text = <<>> THEN <<"0">>
  ELSE LET text == without_char(upper(raw_text), ",")
       IN IF contains(text, "K") THEN parse_with_suffix(text, "K", THOUSAND_ZEROS)
          ELSE IF contains(text, "M") THEN parse_with_suffix(text, "M", MILLION_ZEROS)
          ELSE IF is_int_literal(text)
          THEN decimal_text(nat_of_digits(text))
          ELSE <<"0">>

\* a call of _parse_count on one text
parse_count_call ==
  /\ parse_pc = "called"
  /\ parsed' = parse_count(count_text)
  /\ parse_pc' = "returned"
  /\ UNCHANGED <<cfgVars, ctlVars, histVars, extVars, runVars, ctlObsVars,
                 runObsVars, count_text>>

InitParse ==
  /\ MAX_NO_NEW_COMMENTS = SHIPPED_MAX_NO_NEW_COMMENTS
  /\ MAX_SCROLL_ATTEMPTS = SHIPPED_MAX_NO_NEW_COMMENTS
  /\ FiltersAsShipped
  /\ RunIdle
  /\ ControllerIdle
  /\ ExtractIdle
  /\ count_text \in CountTexts
  /\ parsed = <<>>
  /\ parse_pc = "called"

NextParse == parse_count_call

SpecParse == InitParse /\ [][NextParse]_vars

(***************************************************************************)
(* Batch extraction alone, on every batch of at most MaxNodes nodes.       *)
(***************************************************************************)
InitExtract ==
  /\ MAX_NO_NEW_COMMENTS = SHIPPED_MAX_NO_NEW_COMMENTS
  /\ MAX_SCROLL_ATTEMPTS = SHIPPED_MAX_NO_NEW_COMMENTS
  /\ FiltersAsShipped
  /\ RunIdle
  /\ ControllerIdle
  /\ row \in {Row2, Row3}
  /\ comment_elements \in SeqsUpTo(CommentNodes, MaxNodes)
  /\ video_comments = <<>>
  /\ extract_pc = "ready"
  /\ ParseIdle

NextExtract == extract_loaded_comments

SpecExtract == InitExtract /\ [][NextExtract]_vars

(***************************************************************************)
(* The filter alone: any thresholds config.py may hold, any table of at    *)
(* most MaxVideos videos, and the filter applied to its own output.        *)
(***************************************************************************)
FilterRows == {Row1, Row2, Row3, Row4, Row5, Row6, Row7}
MinimumValues == {None, <<0 - 1>>, <<0>>, <<500>>}

InitFilter ==
  /\ MAX_NO_NEW_COMMENTS = SHIPPED_MAX_NO_NEW_COMMENTS
  /\ MAX_SCROLL_ATTEMPTS = SHIPPED_MAX_NO_NEW_COMMENTS
  /\ MIN_COMMENTS \in MinimumValues
  /\ MIN_LIKES \in MinimumValues
  /\ MIN_VIEWS \in MinimumValues
  /\ MAX_COMMENTS \in {None, <<2>>, <<500>>}
  /\ MAX_LIKES \in {None, <<0>>, <<500>>}
  /\ MAX_VIEWS \in {None, <<500>>}
  /\ config_status = "importing"
  /\ run_pc = "import"
  /\ df = <<>>
  /\ df_filtered = <<>>
  /\ df_refiltered = <<>>
  /\ OrchestratorFresh
  /\ ControllerIdle
  /\ ExtractIdle
  /\ ParseIdle

NextFilter ==
  \/ import_config
  \/ read_csv(TablesUpTo(FilterRows, MaxVideos))
  \/ filter_videos
  \/ filter_again

SpecFilter == InitFilter /\ [][NextFilter]_vars

(***************************************************************************)
(* A whole run of process_videos under the thresholds config.py ships, on  *)
(* a table of at most MaxRunVideos videos.  The outer bound of the         *)
(* controller, 5000 in config.py, is MaxRunAttempts here.                  *)
(***************************************************************************)
\* Row1 has too few views for the shipped thresholds
RunRows == <<Row1, Row2, Row3, Row8>>

\* the tables made of rows of RunRows, in their order
RunTables ==
  {t \in TablesUpTo({RunRows[k] : k \in 1..Len(RunRows)}, MaxRunVideos) :
     \A i \in 1..Len(t) : \A j \in 1..Len(t) : i < j => t[i].No < t[j].No}

\* the counts the page of a video reports
RunCountValues == {0, 1}

\* the comment threads the page of a video renders: no #comment element, no
\* #content-text, a blank text, and a text with every other field missing
NodeWithoutComment ==
  [comment |-> FALSE, content_text |-> MissingElement,
   author_text |-> MissingElement]
NodeWithoutText ==
  [comment |-> TRUE, content_text |-> MissingElement,
   author_text |-> [found |-> TRUE, text |-> <<"b", " ">>]]
NodeWithBlankText ==
  [comment |-> TRUE, content_text |-> [found |-> TRUE, text |-> <<" ">>],
   author_text |-> [found |-> TRUE, text |-> <<"b", " ">>]]
NodeWithTextOnly ==
  [comment |-> TRUE, content_text |-> [found |-> TRUE, text |-> <<"a">>],
   author_text |-> MissingElement]
RunCommentNodes ==
  {NodeWithoutComment, NodeWithoutText, NodeWithBlankText, NodeWithTextOnly}

\* what line 544 returns for a video: nothing, a thread that gives no
\* record, one that gives a record, and pairs of which the first, the
\* second or both give a record
RunBatches ==
  {<<>>, <<NodeWithBlankText>>, <<NodeWithTextOnly>>,
   <<NodeWithTextOnly, NodeWithoutComment>>,
   <<NodeWithoutText, NodeWithTextOnly>>,
   <<NodeWithTextOnly, NodeWithTextOnly>>}

Init ==
  /\ MAX_NO_NEW_COMMENTS = SHIPPED_MAX_NO_NEW_COMMENTS
  /\ MAX_SCROLL_ATTEMPTS = MaxRunAttempts
  /\ FiltersAsShipped
  /\ config_status = "importing"
  /\ run_pc = "import"
  /\ df = <<>>
  /\ df_filtered = <<>>
  /\ df_refiltered = <<>>
  /\ OrchestratorFresh
  /\ ControllerIdle
  /\ ExtractIdle
  /\ ParseIdle

Next ==
  \/ import_config
  \/ read_csv(RunTables)
  \/ filter_videos
  \/ setup_chrome_driver
  \/ next_video
  \/ check_video_availability
  \/ ControllerStep(RunCountValues)
  \/ scroll_finished
  \/ get_current_comments(RunBatches)
  \/ extract_loaded_comments
  \/ accumulate_comments
  \/ save_progress
  \/ keyboard_interrupt
  \/ keyboard_interrupt_outside_try
  \/ save_results
  \/ finally_quit_driver

Spec == Init /\ [][Next]_vars

\* process_videos runs on one thread that nothing else blocks
FairSpec == Spec /\ WF_vars(Next)

(***************************************************************************)
(* Properties of the scroll controller.                                    *)
(***************************************************************************)
AdvanceStepsIssued == loop_advance_steps + final_advance_steps

\* C1: for any patience limit P >= 1 and outer bound B >= P and whatever the
\* page reports, a controller run terminates, its main loop makes at most B
\* iterations, and it ends either as success, and then with a final count
\* > 0, or as failure.
C1_ControllerTerminates ==
  /\ <>(ctl_pc = "returned")
  /\ [](/\ scroll_attempts <= MAX_SCROLL_ATTEMPTS
        /\ loop_advance_steps <= MAX_SCROLL_ATTEMPTS)
  /\ [](ctl_pc = "returned" =>
          /\ scroll_result \in {"True", "False"}
          /\ scroll_result = "True" => comment_count > 0)

\* a run that used the whole outer bound and ended as success
C1_Witness ==
  /\ ctl_pc = "returned"
  /\ scroll_result = "True"
  /\ scroll_attempts = MAX_SCROLL_ATTEMPTS
  /\ MAX_SCROLL_ATTEMPTS > MAX_NO_NEW_COMMENTS

\* C2: within one controller run last_comment_count never decreases from one
\* state to the next, whatever counts the page reports.
C2_ObservedCountMonotone ==
  [][last_comment_count' >= last_comment_count]_vars

\* the page reported fewer comments than the controller had recorded
C2_Witness ==
  /\ ctl_pc \in {"loop", "final_advance"}
  /\ no_new_comments_count > 0
  /\ current_count < last_comment_count

\* C3 as stated: the advance steps issued in all states together never
\* exceed the outer bound B.
C3_AllAdvanceStepsWithinBound == AdvanceStepsIssued <= MAX_SCROLL_ATTEMPTS

\* C3, amended: the main loop issues at most B advance steps; every one of
\* its iterations adds at most FINAL_SCROLL_ATTEMPTS last-resort steps, so
\* the steps issued in all states together never exceed
\* B * (1 + FINAL_SCROLL_ATTEMPTS).
C3_AdvanceStepsBounded ==
  /\ loop_advance_steps <= MAX_SCROLL_ATTEMPTS
  /\ final_advance_steps <= loop_advance_steps * FINAL_SCROLL_ATTEMPTS
  /\ AdvanceStepsIssued <= MAX_SCROLL_ATTEMPTS * (1 + FINAL_SCROLL_ATTEMPTS)

\* a run of B > 1 iterations that issued every last-resort step of each
C3_Witness ==
  /\ MAX_SCROLL_ATTEMPTS > 1
  /\ AdvanceStepsIssued = MAX_SCROLL_ATTEMPTS * (1 + FINAL_SCROLL_ATTEMPTS)

(***************************************************************************)
(* Properties of the extraction pipeline.                                  *)
(***************************************************************************)
\* a node extracts successfully with non-empty text: its #comment and its
\* #content-text exist and the text shows a character that is not a blank
ExtractsWithText(node) ==
  /\ node.comment
  /\ node.content_text.found
  /\ \E k \in 1..Len(node.content_text.text) : node.content_text.text[k] # " "

GoodNodes(elements) ==
  {i \in 1..Len(elements) : ExtractsWithText(elements[i])}

\* the index in the batch of the k-th node that extracts
NthGoodNode(elements, k) ==
  CHOOSE i \in GoodNodes(elements) :
    Cardinality({j \in GoodNodes(elements) : j <= i}) = k

\* the records are those of the extracting nodes, in the order of the nodes
RecordsOfGoodNodesInOrder ==
  /\ Len(video_comments) = Cardinality(GoodNodes(comment_elements))
  /\ \A k \in 1..Len(video_comments) :
       LET node == comment_elements[NthGoodNode(comment_elements, k)]
       IN /\ video_comments[k].comment_text = strip(node.content_text.text)
          /\ video_comments[k].author_name = field_text(node.author_text)
          /\ video_comments[k].video_url = row.URL

\* C4 as stated: a batch of N nodes of which M extract gives M records in the
\* order of their nodes, with the positions 1, 2, ..., M.
C4_PositionsAreDense ==
  extract_pc = "done" =>
    /\ RecordsOfGoodNodesInOrder
    /\ \A k \in 1..Len(video_comments) :
         video_comments[k].comment_position = k

\* C4, amended: a batch of N nodes of which M extract gives M records in the
\* order of their nodes; the position of a record is the 1-based index of
\* its node among all N nodes of the batch, so a node that fails or has
\* empty text does consume a position.
C4_PositionsAreNodeIndices ==
  extract_pc = "done" =>
    /\ RecordsOfGoodNodesInOrder
    /\ \A k \in 1..Len(video_comments) :
         video_comments[k].comment_position =
           NthGoodNode(comment_elements, k)

\* a batch with a failing node between two extracting ones, extracted
C4_Witness ==
  /\ extract_pc = "done"
  /\ Len(comment_elements) = 3
  /\ GoodNodes(comment_elements) = {1, 3}
  /\ Len(video_comments) = 2

\* the records of a sequence all carry a text
AllHaveText(records) ==
  \A k \in 1..Len(records) : records[k].comment_text # <<>>

\* C5: no record with an empty comment text is ever emitted: in every
\* reachable state every record of the list extracted for a video, of the
\* records accumulated over the run and of the results written has a
\* non-empty text, also when the text element of a node is missing or blank
\* and when every other field of a node failed to extract.
C5_NoRecordWithoutText ==
  /\ AllHaveText(video_comments)
  /\ AllHaveText(all_comments)
  /\ \A k \in 1..Len(output) : AllHaveText(output[k])

\* a batch of a node without text element and a node with nothing but its
\* text has been extracted, records of an earlier video being accumulated
C5_Witness ==
  /\ run_pc = "extract"
  /\ extract_pc = "done"
  /\ all_comments # <<>>
  /\ Len(comment_elements) = 2
  /\ comment_elements[1].comment
  /\ comment_elements[1].content_text = MissingElement
  /\ comment_elements[2].author_text = MissingElement
  /\ Len(video_comments) = 1

(***************************************************************************)
(* Properties of the video filter.                                         *)
(***************************************************************************)
Filtered == run_pc \in {"setup", "refiltered"}

\* what each declared cell of the tables normalizes to: separators and
\* blanks stripped, read as a number, the fraction cut off, 0 when it is
\* no number
NormalizedMetric(cell) ==
  CASE cell = <<>> -> 0
    [] cell = <<"a", "b", "c">> -> 0
    [] cell = <<"-", "5">> -> 0 - 5
    [] cell = <<"2", ".", "9">> -> 2
    [] cell = <<"1", "0", "0">> -> 100
    [] cell = <<"5", "0", "0">> -> 500
    [] cell = <<"9", "0", "0">> -> 900
    [] cell = <<"1", ",", "0", "0", "0">> -> 1000
    [] cell = <<"5", " ", "0", "0">> -> 500

\* a minimum is enabled when it is above 0, a maximum when it is present
MinimumHolds(cell, minimum) ==
  minimum[1] > 0 => NormalizedMetric(cell) >= minimum[1]
MaximumHolds(cell, maximum) ==
  maximum # None => NormalizedMetric(cell) <= maximum[1]

EveryEnabledBoundHolds(v) ==
  /\ MinimumHolds(v.declared_comments, MIN_COMMENTS)
  /\ MinimumHolds(v.declared_likes, MIN_LIKES)
  /\ MinimumHolds(v.declared_views, MIN_VIEWS)
  /\ MaximumHolds(v.declared_comments, MAX_COMMENTS)
  /\ MaximumHolds(v.declared_likes, MAX_LIKES)
  /\ MaximumHolds(v.declared_views, MAX_VIEWS)

OnlyMinViews500 ==
  /\ MIN_COMMENTS = <<0>> /\ MIN_LIKES = <<0>> /\ MIN_VIEWS = <<500>>
  /\ MAX_COMMENTS = None /\ MAX_LIKES = None /\ MAX_VIEWS = None

\* C6: the filter returns exactly the input videos, in input order, for which
\* every enabled bound holds on the normalized metric, a metric equal to a
\* bound being retained; with only min_views = 500 and declared views 100,
\* 500 and 900 it retains exactly the 500 and the 900 video.
C6_FilterKeepsExactlyVideosWithinBounds ==
  Filtered =>
    /\ df_filtered = SelectSeq(df, EveryEnabledBoundHolds)
    /\ (OnlyMinViews500 /\ df = <<Row1, Row2, Row3>>) =>
         df_filtered = <<Row2, Row3>>

\* the scenario, filtered
C6_Witness ==
  /\ Filtered
  /\ OnlyMinViews500
  /\ df = <<Row1, Row2, Row3>>
  /\ df_filtered = <<Row2, Row3>>

\* the videos of the input that the filter removed
RemovedVideos ==
  {df[i] : i \in 1..Len(df)} \ {df_filtered[i] : i \in 1..Len(df_filtered)}

\* C7: a minimum of exactly 0 never removes a video: whatever a video
\* declares for a metric whose minimum is 0 (unparseable and negative values
\* included), the filter removes it only for the maximum of that metric or
\* for a bound on another metric.
C7_ZeroMinimumRemovesNothing ==
  Filtered =>
    \A v \in RemovedVideos :
      \/ MIN_COMMENTS # <<0>> /\ ~MinimumHolds(v.declared_comments, MIN_COMMENTS)
      \/ MIN_LIKES # <<0>> /\ ~MinimumHolds(v.declared_likes, MIN_LIKES)
      \/ MIN_VIEWS # <<0>> /\ ~MinimumHolds(v.declared_views, MIN_VIEWS)
      \/ ~MaximumHolds(v.declared_comments, MAX_COMMENTS)
      \/ ~MaximumHolds(v.declared_likes, MAX_LIKES)
      \/ ~MaximumHolds(v.declared_views, MAX_VIEWS)

\* all three minimums 0, and videos declaring a negative, an unparseable and
\* an empty count all kept
C7_Witness ==
  /\ Filtered
  /\ MIN_COMMENTS = <<0>> /\ MIN_LIKES = <<0>> /\ MIN_VIEWS = <<0>>
  /\ df = <<Row5, Row6, Row4>>
  /\ df_filtered = df

\* C8: the filter is idempotent: applied to its own output under the same
\* bounds it returns that output unchanged (same videos, order and fields).
C8_FilterIdempotent ==
  run_pc = "refiltered" => df_refiltered = df_filtered

\* a second application to a table the first one had shortened
C8_Witness ==
  /\ run_pc = "refiltered"
  /\ Len(df_filtered) = 2
  /\ Len(df) = 3
  /\ MAX_COMMENTS # None

\* C9: each of the six bounds may be absent, and an absent bound is disabled:
\* the configuration validates without an error unless a present minimum is
\* negative, and the filter removes a video only for a present bound.
C9_AbsentBoundIsDisabled ==
  /\ (/\ run_pc # "import"
      /\ \A m \in {MIN_COMMENTS, MIN_LIKES, MIN_VIEWS} : m = None \/ m[1] >= 0)
       => config_status = "ok"
  /\ Filtered =>
       \A v \in RemovedVideos :
         \/ MIN_COMMENTS # None /\ ~MinimumHolds(v.declared_comments, MIN_COMMENTS)
         \/ MIN_LIKES # None /\ ~MinimumHolds(v.declared_likes, MIN_LIKES)
         \/ MIN_VIEWS # None /\ ~MinimumHolds(v.declared_views, MIN_VIEWS)
         \/ ~MaximumHolds(v.declared_comments, MAX_COMMENTS)
         \/ ~MaximumHolds(v.declared_likes, MAX_LIKES)
         \/ ~MaximumHolds(v.declared_views, MAX_VIEWS)

(***************************************************************************)
(* Properties of a whole run.                                              *)
(***************************************************************************)
\* the filter of the run has returned
FilterFinished == run_pc \notin {"import", "import_failed", "load", "filter"}

\* the URLs of a list of failures, and of a list of records
FailedUrls == {failed_videos[k].url : k \in 1..Len(failed_videos)}
RecordUrls(records) == {records[k].video_url : k \in 1..Len(records)}
ListedUrls(urls) == {urls[k] : k \in 1..Len(urls)}

\* C10: the filter runs exactly once per run and before any rendering work:
\* no video is navigated to before the filter has returned, and a video the
\* filter removed is never navigated to and never appears in the processed
\* list, the failed list or the accumulated records.
C10_FilterOnceBeforeNavigation ==
  /\ filter_calls <= 1
  /\ FilterFinished => filter_calls = 1
  /\ navigated # <<>> => FilterFinished
  /\ FilterFinished =>
       \A v \in RemovedVideos :
         /\ v.URL \notin ListedUrls(navigated)
         /\ v.URL \notin ListedUrls(processed_videos)
         /\ v.URL \notin FailedUrls
         /\ v.URL \notin RecordUrls(all_comments)

\* a finished run on a table whose first video the filter removed, with a
\* processed and a failed video
C10_Witness ==
  /\ run_pc = "done"
  /\ df = <<Row1, Row2, Row3>>
  /\ navigated = <<"u2", "u3">>
  /\ processed_videos # <<>>
  /\ failed_videos # <<>>
  /\ all_comments # <<>>

\* the run is over, its driver was set up and no KeyboardInterrupt arrived
EndedUninterrupted ==
  run_pc = "done" /\ setup_succeeded /\ interrupted_at = <<>>

\* the URLs of the rows of a table, in order
UrlsOf(table) == [k \in 1..Len(table) |-> table[k].URL]

\* the entries of the failed list recorded for an availability failure
UnavailableEntries ==
  SelectSeq(failed_videos, LAMBDA f : f.reason = "Video unavailable")

\* C11: a video that fails the availability check contributes no record to
\* the accumulated records or the output, the failed list gains exactly one
\* entry for it, with its URL, and the run goes on: an uninterrupted run ends
\* having visited every video of the filtered list.
C11_UnavailableVideoSkippedAndRecorded ==
  /\ Len(UnavailableEntries) = Len(unavailable)
  /\ \A k \in 1..Len(unavailable) :
       /\ UnavailableEntries[k].url = unavailable[k]
       /\ Cardinality({j \in 1..Len(failed_videos) :
                         failed_videos[j].url = unavailable[k]}) = 1
       /\ unavailable[k] \notin RecordUrls(all_comments)
       /\ unavailable[k] \notin ListedUrls(processed_videos)
       /\ \A o \in 1..Len(output) : unavailable[k] \notin RecordUrls(output[o])
  /\ EndedUninterrupted => navigated = UrlsOf(df_filtered)

\* three videos of which only the second was unavailable: the output holds
\* records of the first and the third, the failed list the second alone
C11_Witness ==
  /\ run_pc = "done"
  /\ df_filtered = <<Row2, Row3, Row8>>
  /\ unavailable = <<"u3">>
  /\ failed_videos = <<failed_video("u3", "Video unavailable")>>
  /\ Len(output) = 1
  /\ RecordUrls(output[1]) = {"u2", "u8"}

\* the video in flight has no record among the accumulated ones and is not
\* in the processed list
VideoInFlightAddedNothing ==
  /\ row.URL \notin RecordUrls(all_comments)
  /\ row.URL \notin ListedUrls(processed_videos)

\* the extraction pipeline has not been entered for the video in flight
ExtractionNotInvoked ==
  /\ run_pc \notin {"elements", "extract"}
  /\ comment_elements = <<>>
  /\ video_comments = <<>>
  /\ extract_pc = "idle"

\* C12: when the wait for the comment region times out, the controller
\* fails at once with final count 0: no iteration of the main loop, no
\* advance step and no count query is made, and the orchestrator does not
\* invoke the extraction pipeline for that video.
C12_MissingRegionFailsAtOnce ==
  raised_in = "section_wait" =>
    /\ ctl_pc \in {"returned", "idle"}
    /\ scroll_result = "False"
    /\ comment_count = 0
    /\ scroll_attempts = 0
    /\ loop_advance_steps = 0
    /\ final_advance_steps = 0
    /\ count_queries = 0
    /\ ExtractionNotInvoked
    /\ VideoInFlightAddedNothing

\* the second video of a run had no comment region; the orchestrator has
\* gone past the point where it adds records
C12_Witness ==
  /\ raised_in = "section_wait"
  /\ run_pc = "checkpoint"
  /\ started = 2
  /\ all_comments # <<>>

\* C13: the extraction pipeline is invoked for a video only after the
\* controller has returned for it with a final count > 0; a controller run
\* that ends with count 0 is a failure, and a video whose controller run
\* failed is skipped and contributes no record.
C13_ExtractionOnlyAfterLoadedComments ==
  /\ (run_pc \in {"elements", "extract"} \/ extract_pc # "idle") =>
       /\ ctl_pc = "idle"
       /\ scroll_result = "True"
       /\ comment_count > 0
  /\ (ctl_pc = "returned" /\ comment_count = 0) => scroll_result = "False"
  /\ scroll_result = "False" =>
       /\ ExtractionNotInvoked
       /\ VideoInFlightAddedNothing

\* the controller returned normally with count 0 for the second video, and
\* the orchestrator has gone past the point where it adds records
C13_Witness ==
  /\ scroll_result = "False"
  /\ raised_in = "none"
  /\ comment_count = 0
  /\ run_pc = "checkpoint"
  /\ started = 2
  /\ all_comments # <<>>

\* C14: once a KeyboardInterrupt has arrived while a video was being
\* processed, wherever it arrived (an advance step, the recovery strategy and
\* a per-field extraction included), the loop starts no further video.
C14_NoVideoStartedAfterInterrupt ==
  interrupted_at # <<>> => started = interrupted_at[1]

\* C15: when a run whose driver was set up ends, after the last video or
\* because of a KeyboardInterrupt during the loop over the videos,
\* the records accumulated up to then have been flushed: save_results has
\* been called, once, and the output dataset holds every one of them.
C15_RecordsFlushedAtRunEnd ==
  (run_pc = "done" /\ setup_succeeded /\ all_comments # <<>>) =>
    /\ save_calls = 1
    /\ output = <<all_comments>>

C17_DriverQuitExactlyOnce ==
  /\ quit_calls <= 1
  /\ (run_pc = "done" /\ driver # "None") =>
       (driver = "quit" /\ quit_calls = 1)
  /\ driver = "quit" => run_pc = "done"

\* a run with accumulated records that a KeyboardInterrupt at the loop
\* header ended without save_results, its driver quit once
C17_Witness ==
  /\ run_pc = "done"
  /\ interrupted_at # <<>>
  /\ save_calls = 0
  /\ all_comments # <<>>
  /\ driver = "quit"
  /\ quit_calls = 1

\* C18: after every video the orchestrator has finished handling and before
\* the next one starts, the checkpoint holds one snapshot, written over the
\* previous one, that equals the current progress: the processed list, the
\* failed list and, as cumulative count, the number of accumulated records
\* (for every checkpoint write the file system accepted).
C18_CheckpointIsCurrentSnapshot ==
  /\ Len(progress) <= 1
  /\ (run_pc = "loop" /\ started > 0 /\ ~checkpoint_failed) =>
       /\ Len(progress) = 1
       /\ progress[1].processed_videos = processed_videos
       /\ progress[1].failed_videos = failed_videos
       /\ progress[1].total_comments_scraped = Len(all_comments)

\* two videos handled, one with two records and one that failed: the
\* checkpoint counts the two records
C18_Witness ==
  /\ run_pc = "loop"
  /\ started = 2
  /\ ~checkpoint_failed
  /\ Len(processed_videos) = 1
  /\ Len(failed_videos) = 1
  /\ Len(all_comments) = 2
  /\ progress = <<[processed_videos |-> processed_videos,
                   failed_videos |-> failed_videos,
                   total_comments_scraped |-> 2]>>

\* C19: a rendering interaction that fails during an advance step, the
\* fallback scroll included, never aborts the controller: when the
\* controller has returned after such a failure, it reports the count
\* observed so far, and succeeds when that count is positive.
C19_AdvanceFailureNeverAborts ==
  (ctl_pc = "returned" /\ raised_in = "advance_step") =>
    /\ comment_count = last_comment_count
    /\ scroll_result = "True" <=> last_comment_count > 0

\* the videos visited so far are the first ones of the filtered list, in its
\* order, and at most one video is in flight beyond them
VisitedInInputOrder ==
  /\ Len(navigated) <= Len(df_filtered)
  /\ \A k \in 1..Len(navigated) : navigated[k] = df_filtered[k].URL
  /\ started \in {Len(navigated), Len(navigated) + 1}

\* the loop over the filtered list has been left
LoopLeft == run_pc \in {"save_results", "finally", "done"}

\* C20: if the driver setup succeeds and no KeyboardInterrupt arrives, every
\* video of the filtered list is eventually visited, exactly once, one at a
\* time and in input order, whatever happened to earlier videos
\* (unavailable, zero comments, an exception); the loop is not left before
\* the last video was visited.
C20_EveryFilteredVideoVisited ==
  /\ [](VisitedInInputOrder)
  /\ []((LoopLeft /\ setup_succeeded /\ interrupted_at = <<>>) =>
          navigated = UrlsOf(df_filtered))
  /\ (setup_succeeded ~>
        (interrupted_at # <<>> \/ navigated = UrlsOf(df_filtered)))

\* an uninterrupted run over three videos: the first unavailable, the
\* second failed in the element query, the third gave a record and its
\* checkpoint write raised; all three were visited and the output written
C20_Witness ==
  /\ EndedUninterrupted
  /\ df_filtered = <<Row2, Row3, Row8>>
  /\ navigated = <<"u2", "u3", "u8">>
  /\ unavailable = <<"u2">>
  /\ Len(failed_videos) = 2
  /\ failed_videos[2].url = "u3"
  /\ processed_videos = <<"u8">>
  /\ checkpoint_failed
  /\ save_calls = 1

\* setup_chrome_driver returned False and process_videos left at line 779
SetupFailed ==
  /\ run_pc \in {"finally", "done"}
  /\ ~apply_video_filters_raises
  /\ ~setup_succeeded

\* C21: when the driver cannot be set up the whole run is aborted: no video
\* is started or navigated to, the processed list, the failed list and the
\* accumulated records stay empty, and neither a checkpoint nor an output
\* is written.
C21_SetupFailureAbortsRun ==
  SetupFailed =>
    /\ started = 0
    /\ navigated = <<>>
    /\ processed_videos = <<>>
    /\ failed_videos = <<>>
    /\ all_comments = <<>>
    /\ progress = <<>>
    /\ output = <<>>
    /\ save_calls = 0

\* a run with three videos to process whose driver object existed when the
\* setup failed: it is over with the driver quit and nothing visited
C21_Witness ==
  /\ run_pc = "done"
  /\ SetupFailed
  /\ Len(df_filtered) = 3
  /\ driver = "quit"
  /\ navigated = <<>>

\* a plain integer: digits only, once the thousands separators are removed
IsPlainInteger(text) == is_int_literal(without_char(text, ","))

\* a number followed by the unit: digits with at most one point, then the
\* unit as the last character (in either case)
IsNumberWithUnit(text, unit) ==
  /\ text # <<>>
  /\ upper_char(text[Len(text)]) = unit
  /\ is_count_float_literal(
       without_char(SubSeq(text, 1, Len(text) - 1), ","))

\* the decimal the text writes times 10^zeros, cut off at the point: the
\* digits before the point, then the first `zeros` digits after it
TimesPowerOfTenTruncated(number, zeros) ==
  LET points == {i \in 1..Len(number) : number[i] = "."}
      point == IF points = {} THEN Len(number) + 1
               ELSE CHOOSE i \in points : TRUE
      whole == SubSeq(number, 1, point - 1)
      fraction == SubSeq(number, point + 1, Len(number))
      shifted == [i \in 1..zeros |->
                    IF i <= Len(fraction) THEN fraction[i] ELSE "0"]
  IN decimal_text(nat_of_digits(whole \o shifted))

\* the value the specification gives a text
SpecifiedCount(text) ==
  IF IsPlainInteger(text)
  THEN decimal_text(nat_of_digits(without_char(text, ",")))
  ELSE IF IsNumberWithUnit(text, "K")
  THEN TimesPowerOfTenTruncated(
         without_char(SubSeq(text, 1, Len(text) - 1), ","), THOUSAND_ZEROS)
  ELSE IF IsNumberWithUnit(text, "M")
  THEN TimesPowerOfTenTruncated(
         without_char(SubSeq(text, 1, Len(text) - 1), ","), MILLION_ZEROS)
  ELSE <<"0">>

\* C22: _parse_count returns, for every text, an integer: 0 for the empty
\* text and for a text that is neither a plain integer nor a number
\* followed by K or M, the value of a plain integer (separators removed),
\* and the number times 1000 or 1000000, cut off to an integer, for a
\* number followed by K or M.
C22_ParseCountAsSpecified ==
  parse_pc = "returned" => parsed = SpecifiedCount(count_text)

\* the loop of _perform_smart_scroll was left by the break of line 216 after
\* the patience ran out and no last-resort attempt saw growth
StoppedOutOfPatience ==
  /\ no_new_comments_count >= MAX_NO_NEW_COMMENTS
  /\ attempt = FINAL_SCROLL_ATTEMPTS
  /\ final_count <= last_comment_count

\* the loop was left by the break of line 216 after the related-videos probe
StoppedByProbe ==
  /\ probe_calls > 0
  /\ no_new_comments_count < MAX_NO_NEW_COMMENTS
  /\ wants_related_probe(no_new_comments_count, last_comment_count)

\* C23: the controller does not stop while it has patience left: it leaves
\* its loop before the outer bound only when the stall count has reached the
\* patience limit and every last-resort attempt saw no growth, or when the
\* related-videos probe fired; the last-resort attempts start only at the
\* patience limit, and in the loop below the outer bound the next step is
\* another advance step.
C23_NoStopWhilePatienceLeft ==
  /\ ctl_pc = "exit" =>
       \/ scroll_attempts >= MAX_SCROLL_ATTEMPTS
       \/ StoppedOutOfPatience
       \/ StoppedByProbe
  /\ ctl_pc \in {"final_advance", "final_query"} =>
       no_new_comments_count >= MAX_NO_NEW_COMMENTS
  /\ (ctl_pc = "loop" /\ scroll_attempts < MAX_SCROLL_ATTEMPTS) =>
       (ENABLED loop_advance /\ ~ENABLED loop_exhausted)

\* a stop before the outer bound, with a patience limit above one: the
\* stalls reached the limit and three last-resort attempts saw no growth
C23_Witness ==
  /\ ctl_pc = "exit"
  /\ MAX_NO_NEW_COMMENTS > 1
  /\ scroll_attempts < MAX_SCROLL_ATTEMPTS
  /\ last_comment_count > 0
  /\ StoppedOutOfPatience

\* C24: when a last-resort attempt of _try_final_scroll sees the count
\* grown, control returns to the loop of _perform_smart_scroll with the
\* stall count reset to 0.
C24_GrowthInFinalAttemptResetsStalls ==
  [][(ctl_pc = "final_query" /\ ctl_pc' = "loop") =>
       no_new_comments_count' = 0]_vars

\* C25: a controller that leaves its loop at the outer bound has made
\* last-resort attempts (_try_final_scroll) before it returns.
C25_OuterBoundGoesThroughFinalAttempts ==
  (ctl_pc = "exit" /\ scroll_attempts >= MAX_SCROLL_ATTEMPTS) =>
    final_advance_steps > 0

\* C26: between two resets of the stall count to 0 the recovery strategy
\* (_extra_patient_scroll) is executed at most once, and only while the
\* observed count is below the small-list threshold.
C26_RecoveryOncePerStallStreak ==
  /\ streak_extra_calls <= 1
  /\ streak_extra_calls > 0 => last_comment_count < LOW_COMMENT_COUNT

\* C27: when the related-videos probe, made once the stalls have reached
\* the probe threshold with a count below the probe's limit, finds the
\* related section and no continuation item, the controller goes on to the
\* last-resort attempts although the patience limit is not reached, also
\* when the comment region is still on the page.
C27_ProbeForcesFinalAttempts ==
  [][(/\ probe_calls' = probe_calls + 1
      /\ probe_saw'[1].many_related
      /\ ~probe_saw'[1].continuation_items) =>
       ctl_pc' = "final_advance"]_vars

\* C28: the count a controller run returns is the largest count any of its
\* queries observed, those of the last-resort attempts included; a run that
\* observed a comment does not return 0 and report failure.
C28_ReturnsLargestObservedCount ==
  (ctl_pc = "returned" /\ raised_in = "none") =>
    /\ comment_count = max_observed
    /\ max_observed > 0 => scroll_result = "True"

\* the entries of the failed list for a URL, and its places in the processed
\* list
FailedEntriesOf(url) ==
  {j \in 1..Len(failed_videos) : failed_videos[j].url = url}
ProcessedPlacesOf(url) ==
  {j \in 1..Len(processed_videos) : processed_videos[j] = url}

\* C29: every video the orchestrator has finished handling is recorded in
\* exactly one of the two lists: once in the processed list, and then it has
\* a record among the accumulated ones, or by exactly one entry of the
\* failed list, and then it has none; never in both and never in neither.
C29_EveryHandledVideoInExactlyOneList ==
  run_pc = "loop" =>
    \A k \in 1..Len(navigated) :
      \/ /\ Cardinality(ProcessedPlacesOf(navigated[k])) = 1
         /\ FailedEntriesOf(navigated[k]) = {}
         /\ navigated[k] \in RecordUrls(all_comments)
      \/ /\ ProcessedPlacesOf(navigated[k]) = {}
         /\ Cardinality(FailedEntriesOf(navigated[k])) = 1
         /\ navigated[k] \notin RecordUrls(all_comments)

\* C30: with a patience limit of at most RELATED_PROBE_STALLS (the shipped
\* limit of 1 included) no controller run executes the related-videos probe:
\* every stall count that would reach the probe is taken by the
\* patience-limit branch first; the probe runs only under a larger limit.
C30_ProbeOnlyWithLongPatience ==
  /\ probe_calls > 0 => MAX_NO_NEW_COMMENTS > RELATED_PROBE_STALLS
  /\ MAX_NO_NEW_COMMENTS <= RELATED_PROBE_STALLS => probe_saw = <<>>

\* a run with the smallest patience limit that lets the probe run, after
\* its probe
C30_Witness ==
  /\ MAX_NO_NEW_COMMENTS = RELATED_PROBE_STALLS + 1
  /\ probe_calls > 0
  /\ probe_saw # <<>>
  /\ no_new_comments_count = RELATED_PROBE_STALLS

====
